---- MODULE Spec2Model ----
(***************************************************************************)
(* Model of docs/en/getting-started/quickstart/python/adk/quickstart.py:   *)
(* main() opens a ToolboxSyncClient in a `with` scope, builds an Agent on  *)
(* the loaded toolset, creates a session and a Runner, and then drives the *)
(* literal list of queries through runner.run, printing every part text    *)
(* that is not None.  The external collaborators (toolbox client, session  *)
(* service, runner) are the environment: every call may return or raise,   *)
(* and the runner yields an arbitrary bounded stream of events.            *)
(***************************************************************************)
EXTENDS Integers, Sequences, FiniteSets, TLC

VARIABLES pc, conn, url, queries, toolset, loads, root_agent, sessions,
          session, runner, qi, calls, streams, evs, cur, yielded, printed,
          exc, trace

vars == <<pc, conn, url, queries, toolset, loads, root_agent, sessions,
          session, runner, qi, calls, streams, evs, cur, yielded, printed,
          exc, trace>>

----------------------------------------------------------------------------
(* Bounds of the environment *)

\* events the runner yields over one whole execution at most
MaxTotalEvents == 2
\* parts those events carry in total at most
MaxTotalParts == 3
\* length of a substituted query list at most
MaxSubstLen == 2

----------------------------------------------------------------------------
(* Values *)

\* Python's None in a field that otherwise holds a string
NoneVal == "<None>"

\* part.text values the model lets the runner yield
Texts == {NoneVal, "", "a"}

\* the literal endpoint of line 16
LiteralUrl == "http://127.0.0.1:5000"

\* the literal conversation script of lines 48-53
LiteralQueries ==
  << "Find hotels in Basel with Basel in its name.",
     "Can you book the Hilton Basel for me?",
     "Oh wait, this is too expensive. Please cancel it and book the Hyatt Regency instead.",
     "My check in dates would be from April 10, 2024 to April 19, 2024." >>

\* endpoint literals a substituted script may name
Urls == {LiteralUrl, "http://toolbox.example:8080"}

\* query strings a substituted script may carry
QueryPool == <<"q1", "q2", "q3", "q4">>

\* query lists a substituted script may carry: the first n strings of the
\* pool, in either order
QueryLists ==
  UNION { { [k \in 1..n |-> QueryPool[k]], [k \in 1..n |-> QueryPool[n + 1 - k]] }
          : n \in 0..MaxSubstLen }

\* what toolbox_client.load_toolset("my-toolset") may return
Toolsets == { <<"search-hotels">>, <<"search-hotels", "book-hotel">> }

\* ids the session service may assign
SessionIds == {"s1", "s2"}

\* no object bound yet to a local variable
Unbound == [bound |-> FALSE]

SeqsUpTo(S, n) == UNION { [1..k -> S] : k \in 0..n }

\* an event: content is None, or content.parts is a list of parts
Events == { [has_content |-> FALSE, parts |-> <<>>] } \cup
          { [has_content |-> TRUE, parts |-> p] : p \in SeqsUpTo(Texts, MaxTotalParts) }

----------------------------------------------------------------------------
(* Control flow of main() *)

\* variant: the runner is built before the session exists
NextStepRunnerFirst(p) ==
  CASE p = "open"     -> "load"
    [] p = "load"     -> "agent"
    [] p = "agent"    -> "services"
    [] p = "services" -> "runner"
    [] p = "runner"   -> "session"
    [] p = "session"  -> "loop"

\* the statement that follows a completed set-up statement
NextStep(p) ==
  CASE p = "open"     -> "load"
    [] p = "load"     -> "agent"
    [] p = "agent"    -> "services"
    [] p = "services" -> "session"
    [] p = "session"  -> "runner"
    [] p = "runner"   -> "loop"

\* variant: a raise leaves main() without running __exit__
HandlerPcNoExit == "failed"

\* where control goes when a statement inside the `with` block raises:
\* there is no try/except, so the block is left through __exit__
HandlerPc == "exit"

\* variant: every failure is re-raised as one generic error
PropagateTranslated(f) == "RuntimeError"

\* the exception that leaves the statement which raised f
Propagate(f) == f

\* variant: the first loaded tool is dropped
AgentToolsDropFirst(ts) == Tail(ts)

\* the tools handed to Agent(...)
AgentTools(ts) == ts

\* variant: the loop stops one element early
HasNextOffByOne(qs, i) == i < Len(qs) - 1

\* `for query in queries`: is there another element
HasNext(qs, i) == i < Len(qs)

\* variant: every turn resubmits the first query
QueryAtFirst(qs, i) == qs[1]

\* the element the loop binds to `query`
QueryAt(qs, i) == qs[i]

\* types.Content(role='user', parts=[types.Part(text=query)])
Content(query) == [role |-> "user", parts |-> <<query>>]

\* variant: a hard-coded session id instead of session.id
RunKwargsFixedSession(s, content) ==
  [session_id |-> "s1", user_id |-> "123", new_message |-> content]

\* keyword arguments of runner.run
RunKwargs(s, content) ==
  [session_id |-> s.id, user_id |-> "123", new_message |-> content]

\* variant: the filter is missing
ShouldPrintAll(text) == TRUE

\* `if part.text is not None`
ShouldPrint(text) == text # NoneVal

\* variant: only the first event of a stream is consumed
AfterPartsNextQuery == "loop"

\* after the parts of one event: back to `for event in events`
AfterParts == "iter"

\* variant: the `with` block may end while a stream is being consumed
ScopeExitEarly(p) == p \in {"exit", "iter"}

\* the `with` block is left only from its end or by an exception
ScopeExitEnabled(p) == p = "exit"

\* the parts of the e-th event, yielded for query q, each with its place in
\* the stream
Tagged(q, e, ps) ==
  [k \in 1..Len(ps) |-> [q |-> q, e |-> e, k |-> k, text |-> ps[k]]]

Log(op, arg) == Append(trace, [op |-> op, arg |-> arg])

\* a statement inside the `with` block raises f
Raise(f) ==
  /\ exc' = Propagate(f)
  /\ pc' = HandlerPc

----------------------------------------------------------------------------
InitWith(u, qs) ==
  /\ pc = "open"
  /\ conn = "unopened"
  /\ url = u
  /\ queries = qs
  /\ toolset = <<>>
  /\ loads = 0
  /\ root_agent = Unbound
  /\ sessions = <<>>
  /\ session = Unbound
  /\ runner = Unbound
  /\ qi = 0
  /\ calls = <<>>
  /\ streams = <<>>
  /\ evs = 0
  /\ cur = <<>>
  /\ yielded = <<>>
  /\ printed = <<>>
  /\ exc = "none"
  /\ trace = <<>>

\* the script as written
Init == InitWith(LiteralUrl, LiteralQueries)

\* the script with another endpoint literal or another query list
InitSubst == \E u \in Urls : \E qs \in QueryLists : InitWith(u, qs)

\* line 16: ToolboxSyncClient(url).__enter__()
OpenClient ==
  /\ pc = "open"
  /\ trace' = Log("ToolboxSyncClient", url)
  /\ \/ /\ conn' = "open"
        /\ pc' = NextStep("open")
        /\ exc' = exc
     \/ /\ conn' = conn
        /\ exc' = Propagate("ClientError")
        /\ pc' = "failed"
  /\ UNCHANGED <<url, queries, toolset, loads, root_agent, sessions, session,
                 runner, qi, calls, streams, evs, cur, yielded, printed>>

\* line 33: toolbox_client.load_toolset("my-toolset")
LoadToolset ==
  /\ pc = "load"
  /\ trace' = Log("load_toolset", "my-toolset")
  /\ \/ /\ \E ts \in Toolsets : toolset' = ts
        /\ loads' = loads + 1
        /\ pc' = NextStep("load")
        /\ exc' = exc
     \/ /\ Raise("LoadError")
        /\ UNCHANGED <<toolset, loads>>
  /\ UNCHANGED <<conn, url, queries, root_agent, sessions, session, runner,
                 qi, calls, streams, evs, cur, yielded, printed>>

\* lines 28-34: root_agent = Agent(...)
ConstructAgent ==
  /\ pc = "agent"
  /\ trace' = Log("Agent", "hotel_agent")
  /\ \/ /\ root_agent' = [bound |-> TRUE, name |-> "hotel_agent",
                          model |-> "gemini-2.0-flash-001",
                          tools |-> AgentTools(toolset)]
        /\ pc' = NextStep("agent")
        /\ exc' = exc
     \/ /\ Raise("AgentError")
        /\ UNCHANGED root_agent
  /\ UNCHANGED <<conn, url, queries, toolset, loads, sessions, session,
                 runner, qi, calls, streams, evs, cur, yielded, printed>>

\* lines 36-37: the two in-memory services
CreateServices ==
  /\ pc = "services"
  /\ trace' = Append(Log("InMemorySessionService", ""),
                     [op |-> "InMemoryArtifactService", arg |-> ""])
  /\ pc' = NextStep("services")
  /\ UNCHANGED <<conn, url, queries, toolset, loads, root_agent, sessions,
                 session, runner, qi, calls, streams, evs, cur, yielded,
                 printed, exc>>

\* lines 38-40: session = await session_service.create_session(...)
CreateSession ==
  /\ pc = "session"
  /\ trace' = Log("create_session", "hotel_agent")
  /\ \/ /\ \E id \in SessionIds :
             LET s == [bound |-> TRUE, id |-> id, app_name |-> "hotel_agent",
                       user_id |-> "123"]
             IN /\ sessions' = Append(sessions, s)
                /\ session' = s
        /\ pc' = NextStep("session")
        /\ exc' = exc
     \/ /\ Raise("SessionError")
        /\ UNCHANGED <<sessions, session>>
  /\ UNCHANGED <<conn, url, queries, toolset, loads, root_agent, runner, qi,
                 calls, streams, evs, cur, yielded, printed>>

\* lines 41-46: runner = Runner(...)
ConstructRunner ==
  /\ pc = "runner"
  /\ trace' = Log("Runner", "hotel_agent")
  /\ \/ /\ runner' = [bound |-> TRUE, app_name |-> "hotel_agent",
                      agent |-> root_agent]
        /\ pc' = NextStep("runner")
        /\ exc' = exc
     \/ /\ Raise("RunnerError")
        /\ UNCHANGED runner
  /\ UNCHANGED <<conn, url, queries, toolset, loads, root_agent, sessions,
                 session, qi, calls, streams, evs, cur, yielded, printed>>

\* line 55: `for query in queries` takes the next query or ends the loop
LoopNext ==
  /\ pc = "loop"
  /\ IF HasNext(queries, qi)
       THEN /\ qi' = qi + 1
            /\ pc' = "run"
       ELSE /\ qi' = qi
            /\ pc' = "exit"
  /\ UNCHANGED <<conn, url, queries, toolset, loads, root_agent, sessions,
                 session, runner, calls, streams, evs, cur, yielded, printed,
                 exc, trace>>

\* lines 56-58: events = runner.run(session_id=..., user_id=..., new_message=...)
RunQuery ==
  /\ pc = "run"
  /\ \/ /\ calls' = Append(calls,
                      [kwargs |-> RunKwargs(session, Content(QueryAt(queries, qi))),
                       app_name |-> runner.app_name,
                       agent |-> runner.agent])
        /\ streams' = Append(streams, "open")
        /\ pc' = "iter"
        /\ exc' = exc
     \/ /\ Raise("RunError")
        /\ UNCHANGED <<calls, streams>>
  /\ UNCHANGED <<conn, url, queries, toolset, loads, root_agent, sessions,
                 session, runner, qi, evs, cur, yielded, printed, trace>>

\* lines 62-63: `for event in events`, then `event.content.parts`
NextEvent ==
  /\ pc = "iter"
  /\ \/ \* the stream is exhausted: the inner `for` ends
        /\ streams' = [streams EXCEPT ![Len(streams)] = "exhausted"]
        /\ pc' = "loop"
        /\ UNCHANGED <<evs, cur, yielded, exc>>
     \/ \* the runner raises while producing the next event
        /\ Raise("StreamError")
        /\ UNCHANGED <<streams, evs, cur, yielded>>
     \/ \* the runner yields an event
        /\ evs < MaxTotalEvents
        /\ \E ev \in Events :
             /\ Len(yielded) + Len(ev.parts) <= MaxTotalParts
             /\ evs' = evs + 1
             /\ yielded' = yielded \o Tagged(qi, evs + 1, ev.parts)
             /\ IF ev.has_content
                  THEN /\ cur' = Tagged(qi, evs + 1, ev.parts)
                       /\ pc' = "part"
                       /\ exc' = exc
                  ELSE /\ cur' = cur
                       /\ Raise("AttributeError")
        /\ UNCHANGED streams
  /\ UNCHANGED <<conn, url, queries, toolset, loads, root_agent, sessions,
                 session, runner, qi, calls, printed, trace>>

\* lines 61-68: `for part in event.content.parts if part.text is not None`,
\* each yielded text printed before the next part is looked at; a printed
\* line is kept with the place of its part in the stream
NextPart ==
  /\ pc = "part"
  /\ IF cur = <<>>
       THEN /\ pc' = AfterParts
            /\ UNCHANGED <<cur, printed, exc>>
       ELSE LET part == Head(cur) IN
            /\ cur' = Tail(cur)
            /\ IF ShouldPrint(part.text)
                 THEN \/ /\ printed' = Append(printed, part)
                         /\ UNCHANGED <<pc, exc>>
                      \/ /\ Raise("PrintError")
                         /\ UNCHANGED printed
                 ELSE UNCHANGED <<pc, printed, exc>>
  /\ UNCHANGED <<conn, url, queries, toolset, loads, root_agent, sessions,
                 session, runner, qi, calls, streams, evs, yielded, trace>>

\* line 16: ToolboxSyncClient.__exit__ at the end of the `with` block
WithExit ==
  /\ ScopeExitEnabled(pc)
  /\ conn' = "released"
  /\ pc' = IF exc = "none" THEN "done" ELSE "failed"
  /\ UNCHANGED <<url, queries, toolset, loads, root_agent, sessions, session,
                 runner, qi, calls, streams, evs, cur, yielded, printed, exc,
                 trace>>

Next ==
  \/ OpenClient
  \/ LoadToolset
  \/ ConstructAgent
  \/ CreateServices
  \/ CreateSession
  \/ ConstructRunner
  \/ LoopNext
  \/ RunQuery
  \/ NextEvent
  \/ NextPart
  \/ WithExit

Spec == Init /\ [][Next]_vars

SpecSubst == InitSubst /\ [][Next]_vars

----------------------------------------------------------------------------
(* Helpers of the properties *)

Terminal == pc \in {"done", "failed"}

IsPrefix(a, b) == Len(a) <= Len(b) /\ \A k \in 1..Len(a) : a[k] = b[k]

\* the query strings handed to runner.run so far, in call order
Submitted == [k \in 1..Len(calls) |-> calls[k].kwargs.new_message.parts[1]]

NonEmptyText(r) == r.text # NoneVal /\ r.text # ""
NotNoneText(r) == r.text # NoneVal

AllExhausted == \A k \in 1..Len(streams) : streams[k] = "exhausted"

\* the set-up calls of lines 16-46, in program order, for endpoint u
SetupOps(u) ==
  << [op |-> "ToolboxSyncClient", arg |-> u],
     [op |-> "load_toolset", arg |-> "my-toolset"],
     [op |-> "Agent", arg |-> "hotel_agent"],
     [op |-> "InMemorySessionService", arg |-> ""],
     [op |-> "InMemoryArtifactService", arg |-> ""],
     [op |-> "create_session", arg |-> "hotel_agent"],
     [op |-> "Runner", arg |-> "hotel_agent"] >>

\* the failure each set-up call raises when it fails
SetupFailure(op) ==
  CASE op = "ToolboxSyncClient" -> "ClientError"
    [] op = "load_toolset"      -> "LoadError"
    [] op = "Agent"             -> "AgentError"
    [] op = "create_session"    -> "SessionError"
    [] op = "Runner"            -> "RunnerError"
    [] OTHER                    -> "none"

LoopFailures == {"RunError", "StreamError", "AttributeError", "PrintError"}

----------------------------------------------------------------------------
(* C1: the loop submits exactly the four literal queries, in list order,    *)
(* and prints every non-empty text fragment of every event it consumed: in  *)
(* every state the submitted queries are a prefix of the literal list; a    *)
(* run that completes has submitted all four; and whenever the loop is      *)
(* between events (and print itself has not raised) the non-empty fragments *)
(* printed are exactly the non-empty fragments the runner yielded.          *)
C1_FourQueriesAllPrinted ==
  /\ IsPrefix(Submitted, LiteralQueries)
  /\ pc = "done" => Len(calls) = 4 /\ Submitted = LiteralQueries
  /\ (pc # "part" /\ exc # "PrintError") =>
        SelectSeq(printed, NonEmptyText) = SelectSeq(yielded, NonEmptyText)

C1_Witness ==
  /\ pc = "done"
  /\ Len(calls) = 4
  /\ \E k \in 1..Len(printed) : printed[k].text = "a"
  /\ \E k \in 1..Len(yielded) : yielded[k].text = NoneVal

(* C2: the loop is strictly sequential: a query is submitted only when      *)
(* every earlier stream is exhausted and the parts of its last event are    *)
(* used up, and at most one stream is ever open.                            *)
C2_Sequential ==
  /\ Cardinality({k \in 1..Len(streams) : streams[k] = "open"}) <= 1
  /\ \A k \in 1..Len(streams) : k < Len(streams) => streams[k] = "exhausted"
  /\ pc \in {"loop", "run"} => AllExhausted /\ cur = <<>>
  /\ Len(streams) = Len(calls)

C2_Witness ==
  /\ pc = "run"
  /\ Len(calls) = 1
  /\ streams = <<"exhausted">>
  /\ Len(yielded) = 2

(* C3: the connection is released on every exit from main(): no terminal   *)
(* state has it open, and it is left unopened only when opening it failed.  *)
C3_ReleasedOnExit ==
  Terminal =>
    /\ conn # "open"
    /\ conn = "unopened" => exc = "ClientError"
    /\ conn = "released" => exc # "ClientError"

C3_Witness ==
  /\ pc = "failed"
  /\ exc = "PrintError"
  /\ conn = "released"

(* C4: no recovery, retry or translation: a failure leaves main() as the    *)
(* failure that was raised, control never resumes after it, no query is     *)
(* submitted after it, and no query is submitted twice.                     *)
C4_StateOk ==
  /\ exc # "none" =>
       /\ pc \in {"exit", "failed"}
       /\ exc \in LoopFailures \cup {SetupFailure(trace[Len(trace)].op)}
       /\ exc \in LoopFailures => trace = SetupOps(url)
  /\ pc = "done" => exc = "none"
  /\ pc = "failed" => exc # "none"
  /\ \A i, j \in 1..Len(calls) : i # j => Submitted[i] # Submitted[j]

C4_StepOk ==
  exc # "none" => /\ exc' = exc
                  /\ calls' = calls
                  /\ printed' = printed
                  /\ trace' = trace
                  /\ pc' = "failed"

C4_NoRecovery == [](C4_StateOk) /\ [][C4_StepOk]_vars

C4_Witness ==
  /\ pc = "failed"
  /\ exc = "StreamError"
  /\ Len(calls) = 2

(* C5: set-up is linear: client, toolset, agent, services, session, runner, *)
(* and only then the first query; the runner is invoked at most once per    *)
(* query string, and exactly once per query string in a completed run.      *)
C5_LinearSetup ==
  /\ IsPrefix(trace, SetupOps(url))
  /\ (pc \in {"loop", "run", "iter", "part", "done"} \/ calls # <<>>) =>
        /\ trace = SetupOps(url)
        /\ conn # "unopened" /\ root_agent.bound /\ session.bound /\ runner.bound
  /\ runner.bound => session.bound
  /\ session.bound => root_agent.bound
  /\ root_agent.bound => loads = 1 /\ conn # "unopened"
  /\ \A q \in {queries[k] : k \in 1..Len(queries)} :
        LET n == Cardinality({k \in 1..Len(calls) : Submitted[k] = q})
        IN  n <= 1 /\ (pc = "done" => n = 1)

C5_Witness ==
  /\ pc = "iter"
  /\ Len(calls) = 1
  /\ trace = SetupOps(url)

(* C6: the agent's tools are exactly what load_toolset returned, loaded     *)
(* once, and every runner.run call runs that agent.                         *)
C6_AgentTools ==
  /\ loads <= 1
  /\ root_agent.bound => loads = 1 /\ root_agent.tools = toolset
  /\ runner.bound => runner.agent = root_agent
  /\ \A k \in 1..Len(calls) :
        calls[k].agent = root_agent /\ calls[k].agent.tools = toolset

C6_Witness ==
  /\ Len(calls) = 2
  /\ toolset = <<"search-hotels", "book-hotel">>
  /\ root_agent.bound

(* C7: substituting the endpoint or the query list changes nothing else:    *)
(* the set-up calls are the fixed sequence with only the client's argument  *)
(* taken from the endpoint, the submitted queries are a prefix of the given *)
(* list, and a completed run has submitted the n queries of the list, in    *)
(* list order.                                                              *)
C7_Substitution ==
  /\ IsPrefix(trace, SetupOps(url))
  /\ \A k \in 1..Len(trace) : k > 1 => trace[k] = SetupOps(LiteralUrl)[k]
  /\ IsPrefix(Submitted, queries)
  /\ pc = "done" => Submitted = queries /\ trace = SetupOps(url)

C7_Witness ==
  /\ pc = "done"
  /\ url # LiteralUrl
  /\ queries = <<"q2", "q1">>
  /\ Len(calls) = 2

(* C8: one session, created before the loop; every runner.run call names    *)
(* its id, user '123' and a runner of the session's app_name.               *)
C8_OneSession ==
  /\ Len(sessions) <= 1
  /\ session.bound => sessions = <<session>>
  /\ calls # <<>> => Len(sessions) = 1
  /\ \A k \in 1..Len(calls) :
        /\ calls[k].kwargs.session_id = sessions[1].id
        /\ calls[k].kwargs.user_id = "123"
        /\ calls[k].kwargs.user_id = sessions[1].user_id
        /\ calls[k].app_name = "hotel_agent"
        /\ calls[k].app_name = sessions[1].app_name

C8_Witness ==
  /\ Len(calls) = 4
  /\ sessions[1].id = "s2"

(* C9: every runner.run call and every event is taken with the connection   *)
(* open, and without a failure the connection is released only after the    *)
(* last query's stream is exhausted.                                        *)
C9_StepOk ==
  /\ (calls' # calls \/ evs' # evs \/ yielded' # yielded \/ printed' # printed
        \/ streams' # streams \/ cur' # cur)
       => conn = "open" /\ conn' = "open"
  /\ (conn = "open" /\ conn' # "open" /\ exc = "none")
       => Submitted = queries /\ AllExhausted /\ cur = <<>>

C9_StateOk ==
  (pc \in {"run", "iter", "part"} \/ \E k \in 1..Len(streams) : streams[k] = "open" /\ exc = "none")
     => conn = "open"

C9_OpenWhileConsuming == [](C9_StateOk) /\ [][C9_StepOk]_vars

C9_Witness ==
  /\ conn = "released"
  /\ pc = "done"
  /\ evs = 2
  /\ streams[4] = "exhausted"

(* C10: output keeps stream order: what is printed is a prefix of the       *)
(* not-None texts in the order the runner yielded them, None is never       *)
(* printed, and the fragments of a query precede those of any later query.  *)
C10_PrintOrder ==
  /\ IsPrefix(printed, SelectSeq(yielded, NotNoneText))
  /\ \A k \in 1..Len(printed) : printed[k].text # NoneVal
  /\ \A i, j \in 1..Len(printed) : i < j =>
        \/ printed[i].q < printed[j].q
        \/ printed[i].q = printed[j].q /\ printed[i].e < printed[j].e
        \/ printed[i].e = printed[j].e /\ printed[i].k < printed[j].k

C10_Witness ==
  /\ Len(printed) = 2
  /\ Len(yielded) = 3
  /\ yielded[2].text = NoneVal
  /\ printed[1].e = printed[2].e
  /\ printed[1].text = "a" /\ printed[2].text = ""

====
